---- MODULE Spec2Model ----
(***************************************************************************)
(* Model of infra/automation/python/deploy_lab.py: the LabDeployment       *)
(* pipeline (deploy and its nine steps), the readiness poller              *)
(* (wait_for_services), the configuration loading of main(), and the       *)
(* filesystem, working directory and clock the steps act on.               *)
(***************************************************************************)
EXTENDS Integers, Sequences, FiniteSets, TLC

VARIABLES
    pc,               \* position of the process: "main", "health_check", "run_tests", "deploy",
                      \* "poll_get", "poll_sleep", "exit"; "harness" for direct calls
    args,             \* parsed command line (argparse namespace)
    environ,          \* the two supported environment variables
    config_file,      \* the file at args.config: "absent", "invalid" or "valid"
    file_config,      \* the JSON object of a valid config file: [keys, vals]
    config,           \* the effective configuration dict handed to LabDeployment
    platform,         \* "posix" or "windows": decides os.rename on an existing target
    fs,               \* the filesystem: [dirs: set of paths, files: path -> [content, exec]]
    cwd,              \* the process working directory (absolute path)
    clock,            \* int(time.time())
    step,             \* index of the deploy() step that runs next
    started,          \* indices of the steps deploy() has started, in order
    step_result,      \* outcome of each step: "none", "ok", "fail", "raise"
    deployment_steps, \* self.deployment_steps
    trace,            \* external calls made so far (tools, subprocesses, chdir), in order
    svc,              \* wait_for_services: index of the target being polled
    attempt,          \* wait_for_services: loop variable of range(30)
    gets,             \* GET requests issued per target
    sleeps,           \* time.sleep(10) calls per target
    waited,           \* seconds slept per target
    ready,            \* per target: a 200 was seen
    warned,           \* per target: the "may still be initializing" warning was logged
    last_probe,       \* outcome of the most recent GET
    warnings,         \* advisory warnings logged outside the poller
    alerts,           \* counts reported by run_tests: <<critical, high>>
    log_text,         \* the stdout of `docker logs` that run_tests fetched, word by word
    all_ok,           \* every external command and probe so far succeeded
    exit_code,        \* process exit code, -1 while running
    returned,         \* what the operation called by main() gave back:
                      \* "none" while running, "True", "False" or "raise"
    ran,              \* the top-level operations main() has executed
    calls,            \* results of direct create_project_structure() calls
    snap              \* filesystem image before the most recent create_project_structure()

vars == <<pc, args, environ, config_file, file_config, config, platform, fs, cwd,
          clock, step, started, step_result, deployment_steps, trace, svc, attempt,
          gets, sleeps, waited, ready, warned, last_probe, warnings, alerts, log_text, all_ok,
          exit_code, returned, ran, calls, snap>>

----------------------------------------------------------------------------
(* Bounds of the model *)

MaxClock == 2
MaxCalls == 3
MaxFault == 2

----------------------------------------------------------------------------
(* Paths.  A pathlib.Path is [abs, parts]; a location is a tuple of names   *)
(* from the root.                                                            *)

RelPath(parts) == [abs |-> FALSE, parts |-> parts]

AbsPath(parts) == [abs |-> TRUE, parts |-> parts]

\* Path.__truediv__: self.lab_dir / 'configs/falco'
Join(p, rel) == [p EXCEPT !.parts = @ \o rel]

\* the kernel resolves a relative path against the current working directory
Resolve(p, wd) == IF p.abs THEN p.parts ELSE wd \o p.parts

Parent(loc) == SubSeq(loc, 1, Len(loc) - 1)

IsPrefix(a, b) == Len(a) <= Len(b) /\ SubSeq(b, 1, Len(a)) = a

Rebase(loc, src, dst) == dst \o SubSeq(loc, Len(src) + 1, Len(loc))

\* f"{self.lab_dir}.backup.{int(time.time())}" : a string, hence a path of
\* the same kind as lab_dir whose last name carries the suffix
BackupName(p, now) ==
    [p EXCEPT !.parts = SubSeq(@, 1, Len(@) - 1)
                        \o <<@[Len(@)] \o ".backup." \o ToString(now)>>]

----------------------------------------------------------------------------
(* Filesystem *)

IsDir(f, loc) == loc \in f.dirs

IsFile(f, loc) == loc \in DOMAIN f.files

PathExists(f, loc) == IsDir(f, loc) \/ IsFile(f, loc)

Children(f, loc) == {d \in f.dirs \cup DOMAIN f.files : Len(d) > Len(loc) /\ IsPrefix(loc, d)}

\* what lies under loc, by path relative to loc: the content of a directory
Content(f, loc) ==
    [dirs  |-> {SubSeq(d, Len(loc) + 1, Len(d)) : d \in {x \in f.dirs : IsPrefix(loc, x)}},
     files |-> {<<SubSeq(d, Len(loc) + 1, Len(d)), f.files[d]>> :
                    d \in {x \in DOMAIN f.files : IsPrefix(loc, x)}}]

MoveTree(f, src, dst) ==
    LET movedD == {d \in f.dirs : IsPrefix(src, d)}
        movedF == {d \in DOMAIN f.files : IsPrefix(src, d)}
        keptF  == (DOMAIN f.files \ movedF) \ {dst}
        newF   == {Rebase(d, src, dst) : d \in movedF}
    IN  [dirs  |-> (f.dirs \ movedD) \cup {Rebase(d, src, dst) : d \in movedD},
         files |-> [d \in keptF \cup newF |->
                      IF d \in newF
                      THEN f.files[Rebase(d, dst, src)]
                      ELSE f.files[d]]]

\* os.rename(src, dst) as Path.rename calls it
RenameAllowed(f, src, dst, plat) ==
    /\ PathExists(f, src)
    /\ IsDir(f, Parent(dst))
    /\ ~IsPrefix(src, dst)
    /\ IF plat = "windows"
       THEN ~PathExists(f, dst)
       ELSE IF IsDir(f, src)
            THEN ~IsFile(f, dst) /\ (IsDir(f, dst) => Children(f, dst) = {})
            ELSE ~IsDir(f, dst)

Rename(f, src, dst, plat) ==
    IF RenameAllowed(f, src, dst, plat)
    THEN [ok |-> TRUE, fs |-> MoveTree(f, src, dst)]
    ELSE [ok |-> FALSE, fs |-> f]

Prefixes(loc) == {SubSeq(loc, 1, i) : i \in 0..Len(loc)}

\* Path.mkdir(parents=True, exist_ok=True)
Mkdir(f, loc) ==
    IF \E q \in Prefixes(loc) : IsFile(f, q)
    THEN [ok |-> FALSE, fs |-> f]
    ELSE [ok |-> TRUE, fs |-> [f EXCEPT !.dirs = @ \cup Prefixes(loc)]]

\* with open(path, 'w') as f: f.write(text)   (whole-file overwrite; a new
\* file is not executable, an overwritten one keeps its mode)
WriteFile(f, loc, text) ==
    IF IsDir(f, Parent(loc)) /\ ~IsDir(f, loc)
    THEN [ok |-> TRUE,
          fs |-> [f EXCEPT !.files =
                    [d \in DOMAIN f.files \cup {loc} |->
                        IF d = loc
                        THEN [content |-> text,
                              exec |-> IF IsFile(f, loc) THEN f.files[loc].exec ELSE FALSE]
                        ELSE f.files[d]]]]
    ELSE [ok |-> FALSE, fs |-> f]

\* Path.chmod(0o755)
Chmod(f, loc) ==
    IF IsFile(f, loc)
    THEN [ok |-> TRUE, fs |-> [f EXCEPT !.files[loc].exec = TRUE]]
    ELSE [ok |-> IsDir(f, loc), fs |-> f]

----------------------------------------------------------------------------
(* create_project_structure *)

directories ==
    << <<"configs", "falco">>, <<"configs", "filebeat">>, <<"configs", "xsiam">>,
       <<"logs", "falco">>, <<"logs", "filebeat">>, <<"logs", "response">>,
       <<"scripts", "response">>, <<"scripts", "automation">>, <<"data">> >>

\* the backup branch: rename the existing lab directory out of the way
BackupExisting(f, ld, wd, now, plat) ==
    IF PathExists(f, Resolve(ld, wd))
    THEN Rename(f, Resolve(ld, wd), Resolve(BackupName(ld, now), wd), plat)
    ELSE [ok |-> TRUE, fs |-> f]

\* the mkdir loop from index i on; fault = k makes the k-th mkdir raise
\* OSError for a reason outside the model (permissions, full disk), 0 = none
RECURSIVE MakeDirs(_, _, _, _, _)
MakeDirs(f, ld, wd, i, fault) ==
    IF i > Len(directories) THEN [ok |-> TRUE, fs |-> f]
    ELSE IF i = fault THEN [ok |-> FALSE, fs |-> f]
    ELSE LET r == Mkdir(f, Resolve(Join(ld, directories[i]), wd))
         IN  IF r.ok THEN MakeDirs(r.fs, ld, wd, i + 1, fault) ELSE r

create_project_structure(f, ld, wd, now, plat, fault) ==
    LET b == BackupExisting(f, ld, wd, now, plat)
    IN  IF b.ok THEN MakeDirs(b.fs, ld, wd, 1, fault) ELSE b

----------------------------------------------------------------------------
(* main(): configuration loading *)

None == "<None>"

\* Python's  a or b  on strings: None and '' are falsy
StrOr(a, b) == IF a = None \/ a = "" THEN b ELSE a

\* os.getenv(name, default)
Getenv(e, name, default) == IF e[name] = None THEN default ELSE e[name]

ConfigKeys == {"lab_directory", "xsiam_url", "xsiam_api_key"}

\* the dict literal built from the flags and the environment
SeedConfig(a, e) ==
    [lab_directory |-> a.lab_dir,
     xsiam_url     |-> StrOr(a.xsiam_url, Getenv(e, "XSIAM_URL", "")),
     xsiam_api_key |-> StrOr(a.xsiam_key, Getenv(e, "XSIAM_API_KEY", ""))]

\* config.update(file_config)
DictUpdate(c, fc) ==
    [k \in ConfigKeys |-> IF k \in fc.keys THEN fc.vals[k] ELSE c[k]]

LoadConfig(a, e, cf, fc) ==
    IF cf = "valid" THEN DictUpdate(SeedConfig(a, e), fc) ELSE SeedConfig(a, e)

\* LabDeployment.__init__: self.lab_dir
LabDir(c) == c.lab_directory

lab_dir == LabDir(config)

----------------------------------------------------------------------------
(* check_prerequisites *)

\* e: what the environment answers.  docker, compose_v1, compose_sp are the
\* results of shutil.which('docker'), which('docker-compose') and
\* which('docker compose'); info is the exit status of `docker info`;
\* free_gb the free disk space.  calls lists the probes made, with answers
Which(name, found) == "which " \o name \o (IF found THEN ":found" ELSE ":missing")

\* variant: low disk space is treated as fatal
check_prerequisites_disk_fatal(e) ==
    IF ~e.docker
    THEN [ok |-> FALSE, warn |-> FALSE, calls |-> <<Which("docker", FALSE)>>]
    ELSE LET w == IF e.compose_v1
                  THEN <<Which("docker", TRUE), Which("docker-compose", TRUE)>>
                  ELSE <<Which("docker", TRUE), Which("docker-compose", FALSE),
                         Which("docker compose", e.compose_sp)>>
         IN  IF ~e.compose_v1 /\ ~e.compose_sp
             THEN [ok |-> FALSE, warn |-> FALSE, calls |-> w]
             ELSE IF e.info # "zero"
             THEN [ok |-> FALSE, warn |-> FALSE, calls |-> w \o <<"docker info:nonzero">>]
             ELSE [ok |-> ~(e.free_gb < 10), warn |-> e.free_gb < 10,
                   calls |-> w \o <<"docker info:zero",
                                    IF e.free_gb < 10 THEN "disk_usage:low" ELSE "disk_usage:ok">>]

check_prerequisites(e) ==
    IF ~e.docker
    THEN [ok |-> FALSE, warn |-> FALSE, calls |-> <<Which("docker", FALSE)>>]
    ELSE LET w == IF e.compose_v1
                  THEN <<Which("docker", TRUE), Which("docker-compose", TRUE)>>
                  ELSE <<Which("docker", TRUE), Which("docker-compose", FALSE),
                         Which("docker compose", e.compose_sp)>>
         IN  IF ~e.compose_v1 /\ ~e.compose_sp
             THEN [ok |-> FALSE, warn |-> FALSE, calls |-> w]
             ELSE IF e.info # "zero"
             THEN [ok |-> FALSE, warn |-> FALSE, calls |-> w \o <<"docker info:nonzero">>]
             ELSE [ok |-> TRUE, warn |-> e.free_gb < 10,
                   calls |-> w \o <<"docker info:zero",
                                    IF e.free_gb < 10 THEN "disk_usage:low" ELSE "disk_usage:ok">>]

----------------------------------------------------------------------------
(* The file-writing steps *)

\* the writes of a step from index i on: [path, text, exec]; fault = k makes
\* the k-th open() raise OSError for a reason outside the model, 0 = none
RECURSIVE WriteAll(_, _, _, _, _)
WriteAll(f, wd, writes, i, fault) ==
    IF i > Len(writes) THEN [ok |-> TRUE, fs |-> f]
    ELSE IF i = fault THEN [ok |-> FALSE, fs |-> f]
    ELSE LET loc == Resolve(writes[i].path, wd)
             w   == WriteFile(f, loc, writes[i].text)
             c   == IF w.ok /\ writes[i].exec THEN Chmod(w.fs, loc) ELSE w
         IN  IF c.ok THEN WriteAll(c.fs, wd, writes, i + 1, fault) ELSE c

ComposeWrites(ld) ==
    << [path |-> Join(ld, <<"docker-compose.yml">>), text |-> "compose_content", exec |-> FALSE] >>

ConfigWrites(ld) ==
    << [path |-> Join(ld, <<"configs", "falco", "falco_rules.yaml">>),
        text |-> "falco_rules", exec |-> FALSE],
       [path |-> Join(ld, <<"configs", "filebeat", "filebeat.yml">>),
        text |-> "filebeat_config", exec |-> FALSE] >>

ScriptWrites(ld) ==
    << [path |-> Join(ld, <<"scripts", "automation", "simulate_attacks.sh">>),
        text |-> "attack_script", exec |-> TRUE],
       [path |-> Join(ld, <<"scripts", "automation", "health_check.sh">>),
        text |-> "health_script", exec |-> TRUE] >>

SummaryWrites(ld) ==
    << [path |-> Join(ld, <<"python-deployment-summary.md">>), text |-> "summary", exec |-> FALSE] >>

generate_docker_compose(f, ld, wd, fault) == WriteAll(f, wd, ComposeWrites(ld), 1, fault)

\* variant: a failed write removes the lab directory again
generate_configurations_rolls_back(f, ld, wd, fault) ==
    LET r   == WriteAll(f, wd, ConfigWrites(ld), 1, fault)
        loc == Resolve(ld, wd)
    IN  IF r.ok THEN r
        ELSE [ok |-> FALSE,
              fs |-> [dirs  |-> {d \in f.dirs : ~IsPrefix(loc, d)},
                      files |-> [d \in {x \in DOMAIN f.files : ~IsPrefix(loc, x)} |-> f.files[d]]]]

generate_configurations(f, ld, wd, fault) == WriteAll(f, wd, ConfigWrites(ld), 1, fault)

create_automation_scripts(f, ld, wd, fault) == WriteAll(f, wd, ScriptWrites(ld), 1, fault)

generate_summary(f, ld, wd, fault) == WriteAll(f, wd, SummaryWrites(ld), 1, fault)

----------------------------------------------------------------------------
(* deploy_services *)

\* subprocess.run([...], check=True): "zero", "nonzero" (CalledProcessError)
\* or "nolaunch" (the executable cannot be started: FileNotFoundError)
CmdOutcomes == {"zero", "nonzero", "nolaunch"}

\* variant: `up -d` is issued whatever `pull` returned
deploy_services_up_always(f, ld, wd, pull, up) ==
    IF ~IsDir(f, Resolve(ld, wd))
    THEN [res |-> "raise", cwd |-> wd, calls |-> <<"chdir:failed">>]
    ELSE [res |-> IF up = "zero" THEN "ok" ELSE IF up = "nonzero" THEN "fail" ELSE "raise",
          cwd |-> Resolve(ld, wd),
          calls |-> <<"chdir", "compose pull:" \o pull, "compose up -d:" \o up>>]

\* variant: a failed deployment goes back to the directory it started in
deploy_services_restores_cwd(f, ld, wd, pull, up) ==
    IF ~IsDir(f, Resolve(ld, wd))
    THEN [res |-> "raise", cwd |-> wd, calls |-> <<"chdir:failed">>]
    ELSE LET nwd == Resolve(ld, wd)
         IN  IF pull # "zero"
             THEN [res |-> IF pull = "nonzero" THEN "fail" ELSE "raise",
                   cwd |-> wd, calls |-> <<"chdir", "compose pull:" \o pull>>]
             ELSE [res |-> IF up = "zero" THEN "ok"
                           ELSE IF up = "nonzero" THEN "fail" ELSE "raise",
                   cwd |-> IF up = "zero" THEN nwd ELSE wd,
                   calls |-> <<"chdir", "compose pull:zero", "compose up -d:" \o up>>]

\* only subprocess.CalledProcessError is caught
deploy_services(f, ld, wd, pull, up) ==
    IF ~IsDir(f, Resolve(ld, wd))
    THEN [res |-> "raise", cwd |-> wd, calls |-> <<"chdir:failed">>]
    ELSE LET nwd == Resolve(ld, wd)
         IN  IF pull # "zero"
             THEN [res |-> IF pull = "nonzero" THEN "fail" ELSE "raise",
                   cwd |-> nwd, calls |-> <<"chdir", "compose pull:" \o pull>>]
             ELSE [res |-> IF up = "zero" THEN "ok"
                           ELSE IF up = "nonzero" THEN "fail" ELSE "raise",
                   cwd |-> nwd, calls |-> <<"chdir", "compose pull:zero", "compose up -d:" \o up>>]

----------------------------------------------------------------------------
(* wait_for_services *)

services == <<"Elasticsearch", "Kibana">>

MaxAttempts == 30

ProbeOutcomes == {"200", "non200", "error"}

\* variant: any HTTP response counts as ready
probe_ready_any_response(outcome) == outcome # "error"

\* response.status_code == 200; a RequestException never reaches the test
probe_ready(outcome) == outcome = "200"

\* variant: the loop never sleeps
sleep_after_never(att) == FALSE

\* variant: the loop sleeps after the last attempt too
sleep_after_always(att) == TRUE

\* if attempt < 29: time.sleep(10)
sleep_after(att) == att < MaxAttempts - 1

SleepSeconds == 10

\* time.sleep(10): the same delay after every attempt
sleep_seconds(att) == SleepSeconds

\* variant: an exhausted target makes the step fail
wait_for_services_return_strict(rdy) ==
    IF \A t \in DOMAIN rdy : rdy[t] THEN "ok" ELSE "fail"

\* the return statement at the end of wait_for_services
wait_for_services_return(rdy) == "ok"

----------------------------------------------------------------------------
(* run_tests and health_check *)

MaxLogWords == 3

\* subprocess.run([path]) can start the script only if the path names an
\* executable file, seen from the current working directory
CanLaunch(f, p, wd) == IsFile(f, Resolve(p, wd)) /\ f.files[Resolve(p, wd)].exec

AttackScript(ld) == Join(ld, <<"scripts", "automation", "simulate_attacks.sh">>)

HealthScript(ld) == Join(ld, <<"scripts", "automation", "health_check.sh">>)

\* the captured log output, as the words the markers are searched in
LogWords == {"CRITICAL", "HIGH", "INFO"}

LogTexts(n) == UNION {[1..k -> LogWords] : k \in 0..n}

\* what --run-tests may fetch, and what a full deployment may fetch
TestLogs == LogTexts(MaxLogWords)

DeployLogs == LogTexts(1)

\* str.count(marker)
Count(text, marker) == Cardinality({i \in DOMAIN text : text[i] = marker})

\* variant: no alert in the log makes the step fail
run_tests_needs_alerts(f, ld, wd, status, logs_launch, text) ==
    IF ~CanLaunch(f, AttackScript(ld), wd)
    THEN [ok |-> FALSE, alerts |-> <<-1, -1>>, log |-> <<>>, warn |-> FALSE,
          calls |-> <<"simulate_attacks.sh:failed">>]
    ELSE IF ~logs_launch
    THEN [ok |-> FALSE, alerts |-> <<-1, -1>>, log |-> <<>>, warn |-> FALSE,
          calls |-> <<"simulate_attacks.sh:" \o status, "docker logs:failed">>]
    ELSE LET critical_alerts == Count(text, "CRITICAL")
             high_alerts     == Count(text, "HIGH")
         IN  [ok |-> critical_alerts > 0 \/ high_alerts > 0,
              alerts |-> <<critical_alerts, high_alerts>>, log |-> text,
              warn |-> ~(critical_alerts > 0 \/ high_alerts > 0),
              calls |-> <<"simulate_attacks.sh:" \o status, "docker logs">>]

\* status: exit status of the attack script, which is not looked at;
\* logs_launch: `docker logs` could be started; text: its stdout.  An exception (a script or
\* a docker that cannot be started) is caught and turned into False
run_tests(f, ld, wd, status, logs_launch, text) ==
    IF ~CanLaunch(f, AttackScript(ld), wd)
    THEN [ok |-> FALSE, alerts |-> <<-1, -1>>, log |-> <<>>, warn |-> FALSE,
          calls |-> <<"simulate_attacks.sh:failed">>]
    ELSE IF ~logs_launch
    THEN [ok |-> FALSE, alerts |-> <<-1, -1>>, log |-> <<>>, warn |-> FALSE,
          calls |-> <<"simulate_attacks.sh:" \o status, "docker logs:failed">>]
    ELSE LET critical_alerts == Count(text, "CRITICAL")
             high_alerts     == Count(text, "HIGH")
         IN  [ok |-> TRUE, alerts |-> <<critical_alerts, high_alerts>>, log |-> text,
              warn |-> ~(critical_alerts > 0 \/ high_alerts > 0),
              calls |-> <<"simulate_attacks.sh:" \o status, "docker logs">>]

\* status: exit status of the health-check script when it runs
health_check(f, ld, wd, status) ==
    IF ~IsDir(f, Resolve(ld, wd))
    THEN [ok |-> FALSE, cwd |-> wd, calls |-> <<"chdir:failed">>]
    ELSE LET nwd == Resolve(ld, wd)
         IN  IF ~CanLaunch(f, HealthScript(ld), nwd)
             THEN [ok |-> FALSE, cwd |-> nwd, calls |-> <<"chdir", "health_check.sh:failed">>]
             ELSE [ok |-> status = "zero", cwd |-> nwd,
                   calls |-> <<"chdir", "health_check.sh:" \o status>>]

----------------------------------------------------------------------------
(* deploy(): the step table and the loop *)

steps ==
    <<"Prerequisites Check", "Project Structure", "Docker Compose", "Configurations",
      "Automation Scripts", "Service Deployment", "Service Readiness", "Initial Tests",
      "Summary Generation">>

\* a Python bool, as the operations return it
Bool(b) == IF b THEN "True" ELSE "False"

\* variant: the process always exits 0
ExitCode_always_zero(ret) == 0

\* sys.exit(0 if ret else 1); an uncaught exception also ends the process with 1
ExitCode(ret) == IF ret THEN 0 ELSE 1

\* variant: the loop goes on after a failed step
deploy_loop_no_abort(k, res, done) ==
    IF k = Len(steps)
    THEN [pc |-> "exit", step |-> k + 1, steps |-> Append(done, steps[k]),
          ret |-> Bool(res = "ok"), exit |-> ExitCode(res = "ok")]
    ELSE [pc |-> "deploy", step |-> k + 1, steps |-> Append(done, steps[k]),
          ret |-> "none", exit |-> -1]

\* variant: the name of a step is recorded before its result is looked at
deploy_loop_records_failed(k, res, done) ==
    IF res # "ok"
    THEN [pc |-> "exit", step |-> k, steps |-> Append(done, steps[k]),
          ret |-> IF res = "raise" THEN "raise" ELSE Bool(FALSE), exit |-> ExitCode(FALSE)]
    ELSE IF k = Len(steps)
    THEN [pc |-> "exit", step |-> k + 1, steps |-> Append(done, steps[k]),
          ret |-> Bool(TRUE), exit |-> ExitCode(TRUE)]
    ELSE [pc |-> "deploy", step |-> k + 1, steps |-> Append(done, steps[k]),
          ret |-> "none", exit |-> -1]

\* one iteration of the loop of deploy() after step k produced res:
\* "ok" (True), "fail" (False) or "raise" (an exception left the step)
deploy_loop(k, res, done) ==
    IF res # "ok"
    THEN [pc |-> "exit", step |-> k, steps |-> done,
          ret |-> IF res = "raise" THEN "raise" ELSE Bool(FALSE), exit |-> ExitCode(FALSE)]
    ELSE IF k = Len(steps)
    THEN [pc |-> "exit", step |-> k + 1, steps |-> Append(done, steps[k]),
          ret |-> Bool(TRUE), exit |-> ExitCode(TRUE)]
    ELSE [pc |-> "deploy", step |-> k + 1, steps |-> Append(done, steps[k]),
          ret |-> "none", exit |-> -1]

----------------------------------------------------------------------------
(* Initial states *)

LabName == "docker-escape-lab"

Home == <<"w">>

DefaultLabDir == RelPath(<<LabName>>)

AbsLabDir == AbsPath(Home \o <<LabName>>)

EmptyFiles == [d \in {} |-> [content |-> "", exec |-> FALSE]]

\* the lab directory at loc holds the whole directory tree
HasTree(f, loc) == \A i \in 1..Len(directories) : IsDir(f, loc \o directories[i])

\* an empty working directory
BaseFs == [dirs |-> {<<>>, Home}, files |-> EmptyFiles]

\* a lab directory holding a user's own file
UserFs ==
    [dirs  |-> {<<>>, Home, Home \o <<LabName>>},
     files |-> [d \in {Home \o <<LabName, "notes.txt">>} |-> [content |-> "user", exec |-> FALSE]]]

\* an already-correct lab directory tree
TreeFs == create_project_structure(BaseFs, AbsLabDir, Home, 0, "posix", 0).fs

\* what an earlier complete deployment left behind
DeployedFs ==
    generate_summary(
        create_automation_scripts(
            generate_configurations(
                generate_docker_compose(TreeFs, AbsLabDir, Home, 0).fs,
                AbsLabDir, Home, 0).fs,
            AbsLabDir, Home, 0).fs,
        AbsLabDir, Home, 0).fs

FileVals ==
    [lab_directory |-> AbsLabDir, xsiam_url |-> "file-url", xsiam_api_key |-> "file-key"]

NoFile == [keys |-> {}, vals |-> FileVals]

NumServices == Len(services)

\* before main() has built it, the dict holds nothing of interest
NoConfig == [lab_directory |-> DefaultLabDir, xsiam_url |-> "", xsiam_api_key |-> ""]

InitRest ==
    /\ cwd = Home
    /\ step = 1
    /\ started = <<>>
    /\ step_result = [k \in 1..Len(steps) |-> "none"]
    /\ deployment_steps = <<>>
    /\ trace = <<>>
    /\ svc = 1
    /\ attempt = 0
    /\ gets = [t \in 1..NumServices |-> 0]
    /\ sleeps = [t \in 1..NumServices |-> 0]
    /\ waited = [t \in 1..NumServices |-> 0]
    /\ ready = [t \in 1..NumServices |-> FALSE]
    /\ warned = [t \in 1..NumServices |-> FALSE]
    /\ last_probe = "none"
    /\ warnings = {}
    /\ alerts = <<-1, -1>>
    /\ log_text = <<>>
    /\ all_ok = TRUE
    /\ exit_code = -1
    /\ returned = "none"
    /\ ran = {}
    /\ calls = <<>>
    /\ snap = fs

\* a process run: the lab directory (the relative default or an absolute
\* one given by flag), the mode and the state of the disk vary; the
\* configuration sources vary in SpecConfig, the rename flavour in SpecCPS
Init ==
    /\ pc = "main"
    /\ platform = "posix"
    /\ fs \in {BaseFs, DeployedFs}
    /\ clock = 0
    /\ \E ld \in {DefaultLabDir, AbsLabDir}, hc \in BOOLEAN, rt \in BOOLEAN :
          args = [lab_dir |-> ld, lab_dir_given |-> ld # DefaultLabDir, xsiam_url |-> None,
                  xsiam_key |-> None, health_check |-> hc, run_tests |-> rt]
    /\ environ = [XSIAM_URL |-> None, XSIAM_API_KEY |-> None]
    /\ config_file = "absent"
    /\ file_config = NoFile
    /\ config = NoConfig
    /\ InitRest

\* every combination of the configuration sources
InitConfig ==
    /\ pc = "main"
    /\ platform = "posix"
    /\ fs = BaseFs
    /\ clock = 0
    /\ \E ld \in {DefaultLabDir, AbsPath(Home \o <<"flag-lab">>)}, hc \in BOOLEAN, rt \in BOOLEAN,
          fu \in {None, "", "flag-url"}, fk \in {None, "flag-key"} :
          args = [lab_dir |-> ld, lab_dir_given |-> ld # DefaultLabDir, xsiam_url |-> fu,
                  xsiam_key |-> fk, health_check |-> hc, run_tests |-> rt]
    /\ environ \in [XSIAM_URL : {None, "env-url"}, XSIAM_API_KEY : {None, "env-key"}]
    /\ \/ config_file \in {"absent", "invalid"} /\ file_config = NoFile
       \/ /\ config_file = "valid"
          /\ \E ks \in SUBSET ConfigKeys : file_config = [keys |-> ks, vals |-> FileVals]
    /\ config = NoConfig
    /\ InitRest

\* direct calls of create_project_structure, as a unit test makes them
InitCPS ==
    /\ pc = "harness"
    /\ platform \in {"posix", "windows"}
    /\ fs \in {BaseFs, UserFs, TreeFs, DeployedFs}
    /\ clock = 0
    /\ \E ld \in {DefaultLabDir, AbsLabDir} :
          args = [lab_dir |-> ld, lab_dir_given |-> ld # DefaultLabDir, xsiam_url |-> None,
                  xsiam_key |-> None, health_check |-> FALSE, run_tests |-> FALSE]
    /\ environ = [XSIAM_URL |-> None, XSIAM_API_KEY |-> None]
    /\ config_file = "absent"
    /\ file_config = NoFile
    /\ config = LoadConfig(args, environ, config_file, file_config)
    /\ InitRest

----------------------------------------------------------------------------
(* Actions *)

inputVars == <<args, environ, config_file, file_config, platform>>

pollVars == <<svc, attempt, gets, sleeps, waited, ready, warned, last_probe>>

harnessVars == <<calls, snap>>

\* main(): load the configuration, build the LabDeployment, pick the mode
main ==
    /\ pc = "main"
    /\ config' = LoadConfig(args, environ, config_file, file_config)
    /\ pc' = IF args.health_check THEN "health_check"
             ELSE IF args.run_tests THEN "run_tests"
             ELSE "deploy"
    /\ UNCHANGED <<inputVars, fs, cwd, clock, step, started, step_result, deployment_steps,
                   trace, pollVars, warnings, alerts, log_text, all_ok, exit_code, returned, ran, harnessVars>>

\* --health-check: sys.exit(0 if deployment.health_check() else 1)
HealthCheckMode ==
    /\ pc = "health_check"
    /\ \E status \in {"zero", "nonzero"} :
          LET r == health_check(fs, lab_dir, cwd, status)
          IN  /\ cwd' = r.cwd
              /\ trace' = trace \o r.calls
              /\ exit_code' = ExitCode(r.ok)
              /\ returned' = Bool(r.ok)
              /\ all_ok' = (all_ok /\ status = "zero")
    /\ pc' = "exit"
    /\ ran' = ran \cup {"health_check"}
    /\ UNCHANGED <<inputVars, config, fs, clock, step, started, step_result, deployment_steps,
                   pollVars, warnings, alerts, log_text, harnessVars>>

\* --run-tests: sys.exit(0 if deployment.run_tests() else 1)
RunTestsMode ==
    /\ pc = "run_tests"
    /\ \E status \in {"zero", "nonzero"}, launch \in BOOLEAN, text \in TestLogs :
          LET r == run_tests(fs, lab_dir, cwd, status, launch, text)
          IN  /\ trace' = trace \o r.calls
              /\ alerts' = r.alerts
              /\ log_text' = r.log
              /\ warnings' = IF r.warn THEN warnings \cup {"no alerts"} ELSE warnings
              /\ exit_code' = ExitCode(r.ok)
              /\ returned' = Bool(r.ok)
              /\ all_ok' = (all_ok /\ status = "zero" /\ launch)
    /\ pc' = "exit"
    /\ ran' = ran \cup {"run_tests"}
    /\ UNCHANGED <<inputVars, config, fs, cwd, clock, step, started, step_result,
                   deployment_steps, pollVars, harnessVars>>

\* deploy(): step k starts
Begin(k) ==
    /\ pc = "deploy"
    /\ step = k
    /\ started' = Append(started, k)
    /\ ran' = ran \cup {"deploy"}

\* deploy(): step k has produced res; the loop appends the name or returns
Finish(k, res) ==
    LET n == deploy_loop(k, res, deployment_steps)
    IN  /\ pc' = n.pc
        /\ step' = n.step
        /\ deployment_steps' = n.steps
        /\ exit_code' = n.exit
        /\ returned' = n.ret
        /\ step_result' = [step_result EXCEPT ![k] = res]

Res(ok) == IF ok THEN "ok" ELSE "fail"

StepCheckPrerequisites ==
    /\ Begin(1)
    /\ \E e \in [docker : BOOLEAN, compose_v1 : BOOLEAN, compose_sp : BOOLEAN,
                 info : {"zero", "nonzero"}, free_gb : {5, 10}] :
          LET r == check_prerequisites(e)
          IN  /\ trace' = trace \o r.calls
              /\ warnings' = IF r.warn THEN warnings \cup {"low disk"} ELSE warnings
              /\ all_ok' = (all_ok /\ r.ok)
              /\ Finish(1, Res(r.ok))
    /\ UNCHANGED <<inputVars, config, fs, cwd, clock, pollVars, alerts, log_text, harnessVars>>

StepCreateProjectStructure ==
    /\ Begin(2)
    /\ \E fault \in 0..MaxFault :
          LET r == create_project_structure(fs, lab_dir, cwd, clock, platform, fault)
          IN  /\ fs' = r.fs
              /\ all_ok' = (all_ok /\ fault = 0)
              /\ Finish(2, Res(r.ok))
    /\ snap' = fs
    /\ UNCHANGED <<inputVars, config, cwd, clock, trace, pollVars, warnings, alerts, log_text, calls>>

\* the steps that only write files: k and the step function's result r
WriteStep(k, r, fault) ==
    /\ fs' = r.fs
    /\ all_ok' = (all_ok /\ fault = 0)
    /\ Finish(k, Res(r.ok))
    /\ UNCHANGED <<inputVars, config, cwd, clock, trace, pollVars, warnings, alerts, log_text, harnessVars>>

StepGenerateDockerCompose ==
    /\ Begin(3)
    /\ \E fault \in 0..MaxFault :
          WriteStep(3, generate_docker_compose(fs, lab_dir, cwd, fault), fault)

StepGenerateConfigurations ==
    /\ Begin(4)
    /\ \E fault \in 0..MaxFault :
          WriteStep(4, generate_configurations(fs, lab_dir, cwd, fault), fault)

StepCreateAutomationScripts ==
    /\ Begin(5)
    /\ \E fault \in 0..MaxFault :
          WriteStep(5, create_automation_scripts(fs, lab_dir, cwd, fault), fault)

StepDeployServices ==
    /\ Begin(6)
    /\ \E pull \in CmdOutcomes, up \in CmdOutcomes :
          LET r == deploy_services(fs, lab_dir, cwd, pull, up)
          IN  /\ cwd' = r.cwd
              /\ trace' = trace \o r.calls
              /\ all_ok' = (all_ok /\ r.res = "ok")
              /\ Finish(6, r.res)
    /\ UNCHANGED <<inputVars, config, fs, clock, pollVars, warnings, alerts, log_text, harnessVars>>

\* wait_for_services is entered: the first target, the first attempt
StepWaitForServices ==
    /\ Begin(7)
    /\ pc' = "poll_get"
    /\ svc' = 1
    /\ attempt' = 0
    /\ UNCHANGED <<inputVars, config, fs, cwd, clock, step, step_result, deployment_steps,
                   trace, gets, sleeps, waited, ready, warned, last_probe, warnings, alerts, log_text, all_ok,
                   exit_code, returned, harnessVars>>

\* variant: after the last target, a first target that is not ready is
\* polled once more
NextTarget_revisits(rdy) ==
    IF svc < NumServices
    THEN /\ svc' = svc + 1
         /\ attempt' = 0
         /\ pc' = "poll_get"
         /\ UNCHANGED <<step, step_result, deployment_steps, exit_code, returned>>
    ELSE IF ~rdy[1] /\ gets[1] <= MaxAttempts
    THEN /\ svc' = 1
         /\ attempt' = 0
         /\ pc' = "poll_get"
         /\ UNCHANGED <<step, step_result, deployment_steps, exit_code, returned>>
    ELSE /\ UNCHANGED <<svc, attempt>>
         /\ Finish(7, wait_for_services_return(rdy))

\* the polling of target svc is over: the next target, or the return
NextTarget(rdy) ==
    IF svc < NumServices
    THEN /\ svc' = svc + 1
         /\ attempt' = 0
         /\ pc' = "poll_get"
         /\ UNCHANGED <<step, step_result, deployment_steps, exit_code, returned>>
    ELSE /\ UNCHANGED <<svc, attempt>>
         /\ Finish(7, wait_for_services_return(rdy))

\* one requests.get(url, timeout=5) and what the loop body does with it
PollGet ==
    /\ pc = "poll_get"
    /\ \E outcome \in ProbeOutcomes :
          /\ gets' = [gets EXCEPT ![svc] = @ + 1]
          /\ last_probe' = outcome
          /\ all_ok' = (all_ok /\ outcome = "200")
          /\ IF probe_ready(outcome)
             THEN /\ ready' = [ready EXCEPT ![svc] = TRUE]
                  /\ warned' = warned
                  /\ NextTarget(ready')
             ELSE IF sleep_after(attempt)
             THEN /\ pc' = "poll_sleep"
                  /\ UNCHANGED <<ready, warned, svc, attempt, step, step_result,
                                 deployment_steps, exit_code, returned>>
             ELSE IF attempt + 1 < MaxAttempts
             THEN /\ pc' = "poll_get"
                  /\ attempt' = attempt + 1
                  /\ UNCHANGED <<ready, warned, svc, step, step_result,
                                 deployment_steps, exit_code, returned>>
             ELSE /\ warned' = [warned EXCEPT ![svc] = TRUE]
                  /\ ready' = ready
                  /\ NextTarget(ready)
    /\ UNCHANGED <<inputVars, config, fs, cwd, clock, started, trace, sleeps, waited, warnings,
                   alerts, log_text, ran, harnessVars>>

\* time.sleep(10), then the next iteration of range(30)
PollSleep ==
    /\ pc = "poll_sleep"
    /\ sleeps' = [sleeps EXCEPT ![svc] = @ + 1]
    /\ waited' = [waited EXCEPT ![svc] = @ + sleep_seconds(attempt)]
    /\ IF attempt + 1 < MaxAttempts
       THEN /\ attempt' = attempt + 1
            /\ pc' = "poll_get"
            /\ UNCHANGED <<warned, svc, step, step_result, deployment_steps, exit_code, returned>>
       ELSE /\ warned' = [warned EXCEPT ![svc] = TRUE]
            /\ NextTarget(ready)
    /\ UNCHANGED <<inputVars, config, fs, cwd, clock, started, trace, gets, ready,
                   last_probe, warnings, alerts, log_text, all_ok, ran, harnessVars>>

StepRunTests ==
    /\ Begin(8)
    /\ \E status \in {"zero", "nonzero"}, launch \in BOOLEAN, text \in DeployLogs :
          LET r == run_tests(fs, lab_dir, cwd, status, launch, text)
          IN  /\ trace' = trace \o r.calls
              /\ alerts' = r.alerts
              /\ log_text' = r.log
              /\ warnings' = IF r.warn THEN warnings \cup {"no alerts"} ELSE warnings
              /\ all_ok' = (all_ok /\ status = "zero" /\ launch)
              /\ Finish(8, Res(r.ok))
    /\ UNCHANGED <<inputVars, config, fs, cwd, clock, pollVars, harnessVars>>

StepGenerateSummary ==
    /\ Begin(9)
    /\ \E fault \in 0..MaxFault :
          WriteStep(9, generate_summary(fs, lab_dir, cwd, fault), fault)

deploy ==
    \/ StepCheckPrerequisites
    \/ StepCreateProjectStructure
    \/ StepGenerateDockerCompose
    \/ StepGenerateConfigurations
    \/ StepCreateAutomationScripts
    \/ StepDeployServices
    \/ StepWaitForServices
    \/ PollGet
    \/ PollSleep
    \/ StepRunTests
    \/ StepGenerateSummary

Next ==
    \/ main
    \/ HealthCheckMode
    \/ RunTestsMode
    \/ deploy

Spec == Init /\ [][Next]_vars

SpecConfig == InitConfig /\ [][main]_vars

\* a direct call of create_project_structure at the current clock reading
CallCreateProjectStructure ==
    /\ pc = "harness"
    /\ Len(calls) < MaxCalls
    /\ LET r == create_project_structure(fs, lab_dir, cwd, clock, platform, 0)
       IN  /\ fs' = r.fs
           /\ calls' = Append(calls, [ok |-> r.ok, at |-> clock,
                                      tree |-> HasTree(fs, Resolve(lab_dir, cwd))])
    /\ snap' = fs
    /\ UNCHANGED <<pc, inputVars, config, cwd, clock, step, started, step_result,
                   deployment_steps, trace, pollVars, warnings, alerts, log_text, all_ok, exit_code, returned, ran>>

\* the clock reaches the next second
Tick ==
    /\ pc = "harness"
    /\ clock < MaxClock
    /\ clock' = clock + 1
    /\ UNCHANGED <<pc, inputVars, config, fs, cwd, step, started, step_result,
                   deployment_steps, trace, pollVars, warnings, alerts, log_text, all_ok, exit_code, returned,
                   ran, harnessVars>>

NextCPS == CallCreateProjectStructure \/ Tick

SpecCPS == InitCPS /\ [][NextCPS]_vars

\* wait_for_services on its own: deploy() has come through its first six
\* steps, on an empty working directory, with every command exiting 0
PrereqsMet == [docker |-> TRUE, compose_v1 |-> TRUE, compose_sp |-> TRUE,
               info |-> "zero", free_gb |-> 10]

ScriptedFs(ld) ==
    create_automation_scripts(
        generate_configurations(
            generate_docker_compose(
                create_project_structure(BaseFs, ld, Home, 0, "posix", 0).fs,
                ld, Home, 0).fs,
            ld, Home, 0).fs,
        ld, Home, 0).fs

InitPoll ==
    /\ pc = "deploy"
    /\ platform = "posix"
    /\ clock = 0
    /\ \E ld \in {DefaultLabDir, AbsLabDir} :
          args = [lab_dir |-> ld, lab_dir_given |-> ld # DefaultLabDir, xsiam_url |-> None,
                  xsiam_key |-> None, health_check |-> FALSE, run_tests |-> FALSE]
    /\ environ = [XSIAM_URL |-> None, XSIAM_API_KEY |-> None]
    /\ config_file = "absent"
    /\ file_config = NoFile
    /\ config = LoadConfig(args, environ, config_file, file_config)
    /\ fs = ScriptedFs(args.lab_dir)
    /\ cwd = deploy_services(fs, args.lab_dir, Home, "zero", "zero").cwd
    /\ step = 7
    /\ started = <<1, 2, 3, 4, 5, 6>>
    /\ step_result = [k \in 1..Len(steps) |-> IF k < 7 THEN "ok" ELSE "none"]
    /\ deployment_steps = SubSeq(steps, 1, 6)
    /\ trace = check_prerequisites(PrereqsMet).calls
                   \o deploy_services(fs, args.lab_dir, Home, "zero", "zero").calls
    /\ svc = 1
    /\ attempt = 0
    /\ gets = [t \in 1..NumServices |-> 0]
    /\ sleeps = [t \in 1..NumServices |-> 0]
    /\ waited = [t \in 1..NumServices |-> 0]
    /\ ready = [t \in 1..NumServices |-> FALSE]
    /\ warned = [t \in 1..NumServices |-> FALSE]
    /\ last_probe = "none"
    /\ warnings = {}
    /\ alerts = <<-1, -1>>
    /\ log_text = <<>>
    /\ all_ok = TRUE
    /\ exit_code = -1
    /\ returned = "none"
    /\ ran = {"deploy"}
    /\ calls = <<>>
    /\ snap = BaseFs

NextPoll == StepWaitForServices \/ PollGet \/ PollSleep

\* one synchronous thread: a request returns or times out after 5 seconds
\* and a sleep ends, so the poller always takes its next step
SpecPoll == InitPoll /\ [][NextPoll]_vars /\ WF_vars(NextPoll)

----------------------------------------------------------------------------
(* Properties *)

Has(e) == \E i \in DOMAIN trace : trace[i] = e

\* the polling of target t is over
Ended(t) == svc > t \/ step_result[7] # "none"

\* C1: deploy() starts its steps in the fixed order, starts step n+1 only
\* after step n returned success, and when a step reports failure no later
\* step is ever started and the run ends in failure.
C1_AbortOnFirstFailure ==
    /\ started = [i \in 1..Len(started) |-> i]
    /\ \A i \in 2..Len(started) : step_result[i - 1] = "ok"
    /\ \A k \in 1..Len(steps) :
          step_result[k] = "fail" => Len(started) = k /\ pc = "exit" /\ exit_code = 1

C1_Witness ==
    /\ step_result[6] = "fail"
    /\ Len(started) = 6
    /\ exit_code = 1

\* every artifact of a complete deployment is in place under loc
Artifacts(f, loc) ==
    /\ HasTree(f, loc)
    /\ \A w \in {ComposeWrites(AbsPath(loc))[1], ConfigWrites(AbsPath(loc))[1],
                 ConfigWrites(AbsPath(loc))[2], ScriptWrites(AbsPath(loc))[1],
                 ScriptWrites(AbsPath(loc))[2], SummaryWrites(AbsPath(loc))[1]} :
          /\ IsFile(f, w.path.parts)
          /\ f.files[w.path.parts] = [content |-> w.text, exec |-> w.exec]

\* C2: a full deploy in which every external command and probe succeeds
\* exits with code 0 and leaves every artifact under the configured lab
\* directory, whether that directory is given relative or absolute.
C2_FullDeploySucceeds ==
    (pc = "exit" /\ "deploy" \in ran /\ all_ok)
        => exit_code = 0 /\ Artifacts(fs, Resolve(lab_dir, Home))

\* C3: when a GET returns 200 on attempt k of a target, that target has had
\* exactly k requests and k-1 sleeps, polling moves to the next target (or
\* returns), and no request or sleep for that target follows.
C3_StopOnFirst200 ==
    [][ /\ (pc = "poll_get" /\ gets' # gets /\ last_probe' = "200")
            => /\ attempt + 1 \in 1..MaxAttempts
               /\ gets'[svc] = attempt + 1
               /\ sleeps'[svc] = attempt
               /\ ready'[svc]
               /\ IF svc < NumServices
                  THEN svc' = svc + 1 /\ attempt' = 0 /\ pc' = "poll_get"
                  ELSE pc' \notin {"poll_get", "poll_sleep"}
        /\ \A t \in 1..NumServices :
              ready[t] => gets'[t] = gets[t] /\ sleeps'[t] = sleeps[t] ]_vars

C3_Witness ==
    /\ ready[1]
    /\ gets[1] = 3
    /\ sleeps[1] = 2
    /\ svc = 2
    /\ pc = "poll_get"

\* C4: a target that never returns 200 gets exactly 30 attempts and a
\* warning, polling goes on with the next target, wait_for_services returns
\* success, and deploy() succeeds when every other step does.
C4_ExhaustedTargetIsAdvisory ==
    /\ \A t \in 1..NumServices :
          /\ (Ended(t) /\ ~ready[t])
                => gets[t] = MaxAttempts /\ sleeps[t] = MaxAttempts - 1 /\ warned[t]
          /\ warned[t] => ~ready[t] /\ gets[t] = MaxAttempts /\ Ended(t)
          /\ (warned[t] /\ t < NumServices /\ step_result[7] # "none") => gets[t + 1] > 0
    /\ step_result[7] \in {"none", "ok"}
    /\ (pc = "exit" /\ "deploy" \in ran /\ \A k \in 1..Len(steps) : k # 7 => step_result[k] = "ok")
          => exit_code = 0 /\ step_result[7] = "ok"

C4_Witness ==
    /\ warned[1]
    /\ gets[1] = MaxAttempts
    /\ pc = "exit"
    /\ exit_code = 0
    /\ Len(deployment_steps) = Len(steps)

\* C5: a GET that ends in a network error, a timeout or a non-200 status
\* uses up exactly one attempt, leaves the target unready, does not end the
\* polling of the target before its 30th attempt, and never makes
\* wait_for_services report failure.
C5_FailedProbeIsNotYetReady ==
    [][ /\ (pc = "poll_get" /\ gets' # gets /\ last_probe' \in {"non200", "error"})
            => /\ gets[svc] = attempt
               /\ gets'[svc] = attempt + 1
               /\ ~ready'[svc]
               /\ step_result'[7] \notin {"fail", "raise"}
               /\ (attempt + 1 < MaxAttempts)
                     => /\ svc' = svc
                        /\ pc' = "poll_sleep"
                        /\ ~warned'[svc]
                        /\ step_result'[7] = "none"
        /\ pc = "poll_sleep"
            => pc' = "poll_get" /\ svc' = svc /\ attempt' = attempt + 1 ]_vars

C5_Witness ==
    /\ pc = "poll_sleep"
    /\ last_probe = "error"
    /\ gets[2] = 2
    /\ ~ready[2]

\* the location of the lab directory as the caller of the harness names it
LabLoc == Resolve(lab_dir, Home)

\* the backup location of the most recent direct call
LastBackupLoc == Resolve(BackupName(lab_dir, calls[Len(calls)].at), Home)

\* C6: a lab directory that exists before create_project_structure() is
\* renamed to the timestamped backup name and replaced by a fresh tree; the
\* backup holds exactly the original content and no other directory that
\* existed before loses or changes content.
C6_BackupPreservesContent ==
    (calls # <<>> /\ IsDir(snap, LabLoc))
        => /\ IsDir(fs, LastBackupLoc)
           /\ Content(fs, LastBackupLoc) = Content(snap, LabLoc)
           /\ IsDir(fs, LabLoc)
           /\ Content(fs, LabLoc) = Content(TreeFs, LabLoc)
           /\ \A d \in snap.dirs :
                 (Len(d) = Len(LabLoc) /\ d # LabLoc /\ Children(snap, d) # {})
                    => Content(fs, d) = Content(snap, d)

\* C7: two create_project_structure() calls in succession on an
\* already-correct tree both return success, whatever the clock readings.
C7_TwiceNeverErrors ==
    \A i \in 1..(Len(calls) - 1) : calls[i].tree => calls[i].ok /\ calls[i + 1].ok

\* C8: a setting given by a flag, or absent the flag by the environment
\* variable, keeps that value whatever the config file holds; the file
\* value applies only when neither is given, the default otherwise.
FromFile(k, default) ==
    IF config_file = "valid" /\ k \in file_config.keys THEN file_config.vals[k] ELSE default

Precedence(flag, env, k) ==
    IF flag \notin {None, ""} THEN flag
    ELSE IF env # None THEN env
    ELSE FromFile(k, "")

C8_FlagEnvFileDefault ==
    pc # "main"
        => /\ (args.xsiam_url # "")
                => config.xsiam_url = Precedence(args.xsiam_url, environ.XSIAM_URL, "xsiam_url")
           /\ config.xsiam_api_key
                 = Precedence(args.xsiam_key, environ.XSIAM_API_KEY, "xsiam_api_key")
           /\ config.lab_directory
                 = IF args.lab_dir_given THEN args.lab_dir
                   ELSE FromFile("lab_directory", DefaultLabDir)

DockerMissing == Which("docker", FALSE)

ComposeV1Missing == Which("docker-compose", FALSE)

ComposeMissing == Which("docker compose", FALSE)

WhichDocker == {Which("docker", b) : b \in BOOLEAN}

WhichComposeV1 == {Which("docker-compose", b) : b \in BOOLEAN}

WhichCompose == {Which("docker compose", b) : b \in BOOLEAN}

PrereqRank(e) ==
    IF e \in WhichDocker THEN 1
    ELSE IF e \in WhichComposeV1 THEN 2
    ELSE IF e \in WhichCompose THEN 3
    ELSE IF e \in {"docker info:zero", "docker info:nonzero"} THEN 4
    ELSE IF e \in {"disk_usage:low", "disk_usage:ok"} THEN 5
    ELSE 6

\* C9: check_prerequisites probes docker, compose, the daemon and the disk
\* in that order; a missing docker, a missing compose or an unreachable
\* daemon ends the step in failure with the later probes skipped and
\* nothing written; low disk space only logs a warning.
C9_PrerequisiteFailures ==
    (step_result[1] # "none") =>
        /\ \A i \in 1..(Len(trace) - 1) :
              \/ PrereqRank(trace[i]) < PrereqRank(trace[i + 1])
              \/ PrereqRank(trace[i]) = 6 /\ PrereqRank(trace[i + 1]) = 6
        /\ PrereqRank(trace[1]) = 1
        /\ Has(DockerMissing)
              => step_result[1] = "fail" /\ Len(trace) = 1
        /\ (Has(ComposeV1Missing) /\ Has(ComposeMissing))
              => step_result[1] = "fail" /\ Len(trace) = 3
        /\ Has("docker info:nonzero")
              => step_result[1] = "fail" /\ trace[Len(trace)] = "docker info:nonzero"
        /\ step_result[1] = "fail"
              => /\ \/ Has(DockerMissing)
                    \/ Has(ComposeV1Missing) /\ Has(ComposeMissing)
                    \/ Has("docker info:nonzero")
                 /\ pc = "exit"
                 /\ exit_code = 1
                 /\ started = <<1>>
                 /\ fs = snap
        /\ step_result[1] = "ok"
              => /\ Has("docker info:zero")
                 /\ Has("disk_usage:low") \/ Has("disk_usage:ok")
                 /\ Has("disk_usage:low") <=> "low disk" \in warnings
        /\ Has("disk_usage:low") => step_result[1] = "ok"

C9_Witness ==
    /\ Has("docker info:nonzero")
    /\ step_result[1] = "fail"
    /\ exit_code = 1

PullEvents == {"compose pull:" \o o : o \in CmdOutcomes}

UpEvents == {"compose up -d:" \o o : o \in CmdOutcomes}

IsDeployEvent(e) == e \in {"chdir", "chdir:failed"} \cup PullEvents \cup UpEvents

DeployEvents == SelectSeq(trace, IsDeployEvent)

\* C10: deploy_services changes into the lab directory, then issues pull,
\* then up -d; up -d is issued only after pull exited zero; a non-zero exit
\* of either makes the step fail, and deploy() then ends without polling,
\* tests or summary.
C10_PullThenUp ==
    ("deploy" \in ran /\ step_result[6] # "none") =>
        /\ Len(DeployEvents) \in 2..3
        /\ DeployEvents[1] = "chdir"
        /\ cwd = Resolve(lab_dir, Home)
        /\ DeployEvents[2] \in PullEvents
        /\ Len(DeployEvents) = 3
              => /\ DeployEvents[2] = "compose pull:zero"
                 /\ DeployEvents[3] \in UpEvents
        /\ DeployEvents[2] = "compose pull:zero" => Len(DeployEvents) = 3
        /\ step_result[6] = "ok" <=> DeployEvents[Len(DeployEvents)] = "compose up -d:zero"
        /\ (Has("compose pull:nonzero") \/ Has("compose up -d:nonzero"))
              => /\ step_result[6] = "fail"
                 /\ pc = "exit"
                 /\ exit_code = 1
                 /\ Len(started) = 6
                 /\ \A t \in 1..NumServices : gets[t] = 0
                 /\ alerts = <<-1, -1>>
                 /\ ~IsFile(fs, Resolve(lab_dir, Home) \o <<"python-deployment-summary.md">>)

C10_Witness ==
    /\ Has("compose pull:zero")
    /\ Has("compose up -d:nonzero")
    /\ step_result[6] = "fail"
    /\ pc = "exit"

\* run_tests() got to its end without an exception
TestsCompleted == Has("docker logs")

\* C11: run_tests() reports how many times each of the two severity markers
\* occurs in the fetched log text, and returns success whenever it completes
\* without an exception: for every pair of counts, (0, 0) included, which
\* only logs a warning, and for every exit status of the attack script.
C11_RunTestsCountsMarkers ==
    /\ TestsCompleted <=> alerts # <<-1, -1>>
    /\ TestsCompleted =>
          /\ alerts = <<Count(log_text, "CRITICAL"), Count(log_text, "HIGH")>>
          /\ ("no alerts" \in warnings) <=> (alerts = <<0, 0>>)
          /\ "run_tests" \in ran => exit_code = 0
          /\ "deploy" \in ran => step_result[8] = "ok"
    /\ ("run_tests" \in ran /\ ~TestsCompleted) => exit_code = 1
    /\ (step_result[8] # "none" /\ ~TestsCompleted) => step_result[8] = "fail"

C11_Witness ==
    /\ "run_tests" \in ran
    /\ Has("simulate_attacks.sh:nonzero")
    /\ log_text = <<"CRITICAL", "INFO", "CRITICAL">>
    /\ alerts = <<2, 0>>
    /\ exit_code = 0

C11_WitnessNoAlerts ==
    /\ step_result[8] = "ok"
    /\ alerts = <<0, 0>>
    /\ "no alerts" \in warnings

\* the one operation the mode flags select: --health-check wins over
\* --run-tests, and deploy() runs when neither is given
Selected ==
    IF args.health_check THEN "health_check"
    ELSE IF args.run_tests THEN "run_tests"
    ELSE "deploy"

\* C12: for every combination of --health-check and --run-tests exactly one
\* of health_check(), run_tests() and deploy() is executed in a process run,
\* and the exit code is 0 if it returned success and 1 if it returned failure.
C12_OneOperationOneExitCode ==
    /\ ran \subseteq {Selected}
    /\ pc = "exit" =>
          /\ ran = {Selected}
          /\ returned # "none"
          /\ returned = "True" => exit_code = 0
          /\ returned = "False" => exit_code = 1
    /\ pc # "exit" => exit_code = -1 /\ returned = "none"

C12_Witness ==
    /\ args.health_check /\ args.run_tests
    /\ ran = {"health_check"}
    /\ returned = "True"
    /\ exit_code = 0

\* deployment_steps is a prefix of the step table and holds the names of
\* exactly the steps that returned True
RecordIsPrefix ==
    /\ Len(deployment_steps) <= Len(steps)
    /\ deployment_steps = SubSeq(steps, 1, Len(deployment_steps))
    /\ \A k \in 1..Len(steps) :
          /\ step_result[k] = "ok" <=> k <= Len(deployment_steps)
          /\ step_result[k] = "fail" => deployment_steps = SubSeq(steps, 1, k - 1)
    /\ ("deploy" \in ran /\ returned = "True") => deployment_steps = steps

\* the record only grows, one name at a time, and not after a failed step
RecordGrowsByOne ==
    /\ \/ deployment_steps' = deployment_steps
       \/ /\ Len(deployment_steps) < Len(steps)
          /\ deployment_steps' = Append(deployment_steps, steps[Len(deployment_steps) + 1])
    /\ (\E k \in 1..Len(steps) : step_result[k] = "fail")
          => deployment_steps' = deployment_steps

\* C13: in every state of deploy() deployment_steps is a prefix of the fixed
\* nine-step order and holds exactly the names of the steps that returned
\* success so far; when step k fails it holds the first k-1 names and is never
\* extended afterwards, and on overall success it holds all nine in order.
C13_CompletedStepsRecord == []RecordIsPrefix /\ [][RecordGrowsByOne]_vars

C13_Witness ==
    /\ step_result[4] = "fail"
    /\ deployment_steps = <<"Prerequisites Check", "Project Structure", "Docker Compose">>
    /\ pc = "exit"

C13_WitnessAllNine ==
    /\ "deploy" \in ran
    /\ returned = "True"
    /\ Len(deployment_steps) = 9

\* the health-check script of the configured lab directory is in place
\* and can be started
HealthScriptInPlace ==
    /\ IsDir(fs, LabLoc)
    /\ CanLaunch(fs, HealthScript(AbsPath(LabLoc)), Home)

OrchestrationFailed ==
    \/ Has("chdir:failed")
    \/ Has("compose pull:nonzero") \/ Has("compose pull:nolaunch")
    \/ Has("compose up -d:nonzero") \/ Has("compose up -d:nolaunch")

\* C15: every fatal condition in a step (a missing tool, an unreachable
\* daemon, a file-write error, a failure to change into the lab directory or
\* to launch the orchestration command, a non-zero exit of an orchestration
\* command, a summary write failure) makes that step return failure, so that
\* deploy() returns failure; no step leaves deploy() through an exception.
C15_FatalConditionsReturnFailure ==
    "deploy" \in ran =>
        /\ \A k \in 1..Len(steps) : step_result[k] # "raise"
        /\ OrchestrationFailed => step_result[6] = "fail" /\ returned = "False"
        /\ pc = "exit" => returned \in {"True", "False"}

\* one step of the program, seen from the working directory
CwdDiscipline ==
    /\ cwd' # cwd => (pc = "deploy" /\ step = 6) \/ pc = "health_check"
    /\ step_result[6] # "none" => cwd' = cwd
    /\ (pc = "deploy" /\ \E i \in DOMAIN trace' : trace'[i] = "chdir") => cwd' = LabLoc

\* C16: the working directory is changed only by deploy_services() (and by
\* health_check() in health-check mode); every other step leaves it as it
\* is, and once deploy_services() has made it the lab directory it stays
\* there for every later step, whether deploy_services() succeeds or fails.
C16_OnlyDeployServicesChangesCwd == [][CwdDiscipline]_vars

C16_Witness ==
    /\ step_result[6] = "fail"
    /\ Has("chdir")
    /\ cwd = LabLoc
    /\ cwd # Home
    /\ pc = "exit"

C16_WitnessLaterSteps ==
    /\ step_result[9] # "none"
    /\ cwd = LabLoc

\* deploy() was left at step k, by a False or by an exception
FailedAt(k) == step_result[k] \in {"fail", "raise"}

\* where the backup of this run went (the clock does not move during deploy())
RunBackupLoc == Resolve(BackupName(lab_dir, clock), Home)

WrittenBy(writes) == \A i \in 1..Len(writes) : IsFile(fs, writes[i].path.parts)

\* what the steps before a failed step k had produced is in place
EarlierWorkInPlace ==
    \A k \in 3..Len(steps) : FailedAt(k) =>
        /\ HasTree(fs, LabLoc)
        /\ IsDir(snap, LabLoc) =>
              /\ IsDir(fs, RunBackupLoc)
              /\ Content(fs, RunBackupLoc) = Content(snap, LabLoc)
        /\ k > 3 => WrittenBy(ComposeWrites(AbsPath(LabLoc)))
        /\ k > 4 => WrittenBy(ConfigWrites(AbsPath(LabLoc)))
        /\ k > 5 => /\ WrittenBy(ScriptWrites(AbsPath(LabLoc)))
                    /\ CanLaunch(fs, AttackScript(AbsPath(LabLoc)), Home)
        /\ k > 6 => Has("compose up -d:zero")

\* a failing step removes and rewrites nothing that was there when it began,
\* and no external call that was made is taken back; once deploy() has
\* returned nothing changes any more
NothingUndone ==
    /\ (pc = "deploy" /\ \E k \in 3..Len(steps) : step = k /\ step_result'[k] \in {"fail", "raise"})
          => /\ fs.dirs \subseteq fs'.dirs
             /\ \A d \in DOMAIN fs.files : d \in DOMAIN fs'.files /\ fs'.files[d] = fs.files[d]
    /\ pc = "deploy" => Len(trace) <= Len(trace') /\ SubSeq(trace', 1, Len(trace)) = trace
    /\ pc = "exit" => fs' = fs /\ trace' = trace

\* C17: when a step of deploy() fails nothing done by the earlier successful
\* steps is undone: the backup directory, the created tree, every file
\* already written and any services already started remain exactly as they
\* were when the failing step returned.
C17_NoRollback == []EarlierWorkInPlace /\ [][NothingUndone]_vars

C17_Witness ==
    /\ step_result[4] = "fail"
    /\ pc = "exit"
    /\ IsDir(snap, LabLoc)
    /\ IsDir(fs, RunBackupLoc)
    /\ IsFile(fs, LabLoc \o <<"docker-compose.yml">>)

C17_WitnessServicesStay ==
    /\ step_result[8] = "fail"
    /\ Has("compose up -d:zero")

\* a later target has been probed only after the one before it was given up
\* or found ready
PolledInOrder ==
    \A t \in 1..(NumServices - 1) :
        gets[t + 1] > 0 => (ready[t] \/ (warned[t] /\ gets[t] = MaxAttempts))

\* one step of the poller: a request goes to the current target only, the
\* current target only moves forward, one target at a time and only when its
\* polling has ended, and a target behind a probed one gets no more requests
OneTargetAtATime ==
    /\ \A t \in 1..NumServices :
          gets'[t] # gets[t] => /\ t = svc
                                /\ pc = "poll_get"
                                /\ gets'[t] = gets[t] + 1
                                /\ \A u \in (t + 1)..NumServices : gets[u] = 0
    /\ svc' >= svc
    /\ (svc' # svc /\ pc # "deploy") => /\ svc' = svc + 1
                                        /\ ready'[svc] \/ warned'[svc]
                                        /\ gets'[svc'] = 0

\* C18: wait_for_services() polls its targets strictly one after another in
\* their fixed order: no request goes to a later target before the polling
\* of the one before it has ended (a 200, or the attempts used up), and none
\* goes to an earlier target once a later one has been probed.
C18_TargetsPolledInOrder == []PolledInOrder /\ [][OneTargetAtATime]_vars

C18_Witness ==
    /\ gets[1] = MaxAttempts
    /\ warned[1]
    /\ ~ready[1]
    /\ gets[2] > 1

Polling == pc \in {"poll_get", "poll_sleep"}

\* per target: at most 30 requests and 29 sleeps, a sleep after every
\* attempt but the one that ended the polling, every sleep of the same length
PollBounded ==
    \A t \in 1..NumServices :
        /\ gets[t] <= MaxAttempts
        /\ sleeps[t] <= MaxAttempts - 1
        /\ waited[t] = SleepSeconds * sleeps[t]
        /\ (Polling /\ svc = t)
              => sleeps[t] = attempt /\ gets[t] = IF pc = "poll_get" THEN attempt ELSE attempt + 1
        /\ (gets[t] > 0 /\ ~(Polling /\ svc = t)) => sleeps[t] = gets[t] - 1

\* no two requests to a target without a sleep between them, no two sleeps
\* without a request between them
SleepBetweenAttempts ==
    \A t \in 1..NumServices :
        /\ (gets'[t] # gets[t] /\ gets[t] > 0) => (pc = "poll_get" /\ sleeps[t] = gets[t])
        /\ sleeps'[t] # sleeps[t] => (pc = "poll_sleep" /\ sleeps[t] = gets[t] - 1
                                      /\ gets[t] < MaxAttempts)

\* C19: wait_for_services() always terminates when every request returns or
\* times out: per target at most 30 requests and at most 29 sleeps of one
\* fixed length, exactly one sleep between two consecutive attempts, no sleep
\* after the 30th attempt, and a delay that never grows.
C19_PollingTerminates ==
    /\ []PollBounded
    /\ [][SleepBetweenAttempts]_vars
    /\ <>(step_result[7] = "ok")

C19_Witness ==
    /\ gets[1] = MaxAttempts
    /\ sleeps[1] = MaxAttempts - 1
    /\ waited[1] = 290
    /\ warned[1]
    /\ svc = 2

====
